---- MODULE Spec2Model ----
(***************************************************************************)
(* Model of the shared-memory buffer pool of wayland-thing                 *)
(* (src/src/buffer_pool.rs): BufferPool::new, BufferPool::get_buffer,      *)
(* BufferHandle::release (driven by BufferDispatch::event), and the Drop   *)
(* implementations of BufferPool and AvailableBufferPool.                  *)
(*                                                                         *)
(* The compositor side is modelled by what the client sends to it: the     *)
(* size last given for each wl_shm_pool, the arguments every wl_buffer was *)
(* created with, and the number of destroy requests sent for each object.  *)
(*                                                                         *)
(* The program holds one pool at a time, in Window::buffer_pool            *)
(* (src/src/main.rs): main constructs it, Window::set_scale replaces it,   *)
(* and every handler runs to completion on the one dispatch thread.        *)
(***************************************************************************)
EXTENDS Integers, Sequences, FiniteSets, TLC

\* ------------------------------------------------------------------ bounds
MaxPools == 2      \* pools constructed in one behaviour
MaxBuffers == 3    \* wl_buffer objects created in one behaviour
MaxDim == 4        \* largest width / height given to BufferPool::new
WordBits == 27     \* bits of the model's stand-in for a 32-bit word

\* ------------------------------------------------------- program constants
SizeOfU32 == 4     \* mem::size_of::<u32>()
WINDOW_WIDTH == 500
WINDOW_HEIGHT == 500

PoolIds == 1..MaxPools
\* geometries given to BufferPool::new: a non-square one and a square one
Geometries == {<<1, MaxDim>>, <<MaxDim, MaxDim>>}

\* ------------------------------------------------------ integer conversions
RECURSIVE Pow2(_)
Pow2(n) == IF n = 0 THEN 1 ELSE 2 * Pow2(n - 1)

U32Mod == Pow2(WordBits)

\* u32 arithmetic wraps modulo the word size
WrapU32(x) == x % U32Mod

\* largest value of the signed word
I32Max == U32Mod \div 2 - 1

\* `x as i32`: keep the low word, reinterpret it as two's complement
AsI32(x) ==
    LET m == x % U32Mod
    IN  IF m >= U32Mod \div 2 THEN m - U32Mod ELSE m

\* variant: the size counts pixels instead of bytes
buffer_size_in_pixels(width, height) == WrapU32(width * height)

\* fn buffer_size(width, height) -> usize
buffer_size(width, height) == WrapU32(width * height) * SizeOfU32

\* variant: the stride counts pixels instead of bytes
stride_arg_in_pixels(width) == AsI32(width)

\* the stride argument of create_buffer
stride_arg(width) == AsI32(width * SizeOfU32)

\* ------------------------------------------------------------------- state
VARIABLES
    pools,        \* PoolIds -> BufferPool (with its AvailableBufferPool and wl_shm_pool)
    handles,      \* sequence of BufferHandle, indexed by wl_buffer id
    wl_buffers,   \* sequence of compositor-side wl_buffer objects, same index
    ret,          \* result of the get_buffer call that has just returned
    panicked,     \* NoPanic, or the buffer whose release failed the assertion
    scale,        \* Window::scale, in units of 1/120
    strong,       \* PoolIds -> strong count of the pool's Arc<Mutex<AvailableBufferPool>>
    mutex,        \* holder of the free list's Mutex: "none", "main" or "release"
    release_thread,  \* position of a release handler running on its own thread
    main_thread      \* position of the thread that owns the BufferPool

vars == <<pools, handles, wl_buffers, ret, panicked, scale,
          strong, mutex, release_thread, main_thread>>

\* the variables that only a handler interleaved with another thread changes
threads == <<strong, mutex, release_thread, main_thread>>

NoPool ==
    [state |-> "none", width |-> 0, height |-> 0, fileLen |-> 0,
     mappingLen |-> 0, shmSize |-> 0, shmDestroys |-> 0,
     available_buffers |-> <<>>]

\* no release has failed its assertion
NoPanic == 0

\* the program has panicked outside release: an .expect(..) on a failed
\* BufferPool::new, or the overflow check of a debug build
Aborted == -1

\* scale 1.0, the scale main gives the window (fractional scales are n / 120)
UnitScale == 120

NoRet == [kind |-> "none", pool |-> 0, buffer |-> 0, offset |-> 0]

BufferIds == 1..Len(handles)

ReleaseIdle == [pc |-> "idle", buffer |-> 0, last |-> FALSE]

MainIdle == [pc |-> "idle", buffer |-> 0, offset |-> 0]

\* no handler is part-way through: main.rs dispatches every event on the one
\* thread, where each handler runs to completion
ThreadsIdle ==
    /\ strong = [p \in PoolIds |-> 0]
    /\ mutex = "none"
    /\ release_thread = ReleaseIdle
    /\ main_thread = MainIdle

\* Weak::upgrade succeeds exactly while the pool still holds its Arc
Upgrade(p) == pools[p].state = "live"

Init ==
    /\ pools = [p \in PoolIds |-> NoPool]
    /\ handles = <<>>
    /\ wl_buffers = <<>>
    /\ ret = NoRet
    /\ panicked = NoPanic
    /\ scale = UnitScale
    /\ ThreadsIdle

\* ------------------------------------------------------- BufferPool::new
\* variant: the wl_shm_pool is created with the true, zero, size of the file
NewPoolZeroSize(width, height) ==
    [state |-> "live", width |-> width, height |-> height, fileLen |-> 0,
     mappingLen |-> 0, shmSize |-> 0, shmDestroys |-> 0,
     available_buffers |-> <<>>]

NewPool(width, height) ==
    [state |-> "live", width |-> width, height |-> height, fileLen |-> 0,
     mappingLen |-> 0,
     shmSize |-> AsI32(buffer_size(width, height)),
     shmDestroys |-> 0,
     available_buffers |-> <<>>]

\* pool p is the next one to be constructed
IsNext(p) ==
    /\ pools[p].state = "none"
    /\ \A q \in PoolIds : q < p => pools[q].state # "none"

\* the pool the window holds in its buffer_pool field, if any
LivePools == {q \in PoolIds : pools[q].state = "live"}

\* buffer_size's u32 product overflows: a build with overflow checks panics
\* there, a build without them goes on with the wrapped product
NewOverflowPanic(p, width, height) ==
    /\ width * height >= U32Mod
    /\ pools' = [pools EXCEPT ![p] = [NoPool EXCEPT !.state = "failed",
                                                    !.width = width,
                                                    !.height = height]]
    /\ panicked' = Aborted
    /\ UNCHANGED <<handles, wl_buffers, ret>>

\* main: the window's pool is constructed while the window holds none
New(p, width, height) ==
    /\ panicked = NoPanic
    /\ UNCHANGED <<scale, threads>>
    /\ IsNext(p)
    /\ LivePools = {}
    /\ \/ /\ pools' = [pools EXCEPT ![p] = NewPool(width, height)]
          /\ ret' = NoRet
          /\ UNCHANGED <<handles, wl_buffers, panicked>>
       \/ NewOverflowPanic(p, width, height)

\* ------------------------------------------------ BufferPool::get_buffer
\* variant: the free list is ignored and the pool grows on every call
RecycleGrowsAnyway(p) ==
    LET old_size == pools[p].mappingLen
        new_size == old_size + buffer_size(pools[p].width, pools[p].height)
    IN  /\ pools[p].available_buffers # <<>>
        /\ Len(handles) < MaxBuffers
        /\ pools' = [pools EXCEPT ![p].fileLen = new_size,
                                  ![p].mappingLen = new_size,
                                  ![p].shmSize = AsI32(new_size)]
        /\ handles' = Append(handles, [offset |-> old_size, pool |-> p, loaned |-> TRUE])
        /\ wl_buffers' = Append(wl_buffers,
                                [pool |-> p, offset |-> AsI32(old_size),
                                 width |-> AsI32(pools[p].width),
                                 height |-> AsI32(pools[p].height),
                                 stride |-> stride_arg(pools[p].width),
                                 destroys |-> 0, destroyed_by |-> "none"])
        /\ ret' = [kind |-> "grown", pool |-> p, buffer |-> Len(handles) + 1,
                   offset |-> old_size]
        /\ UNCHANGED panicked

\* variant: the last entry is read but left in the free list
RecycleKeepsEntry(p) ==
    LET avail == pools[p].available_buffers
        entry == avail[Len(avail)]
    IN  /\ avail # <<>>
        /\ handles' = [handles EXCEPT ![entry[1]].loaned = TRUE]
        /\ ret' = [kind |-> "recycled", pool |-> p, buffer |-> entry[1], offset |-> entry[2]]
        /\ UNCHANGED <<pools, wl_buffers, panicked>>

\* variant: the popped slot is returned without its loan flag being set
RecycleNoLoanFlag(p) ==
    LET avail == pools[p].available_buffers
        entry == avail[Len(avail)]
    IN  /\ avail # <<>>
        /\ pools' = [pools EXCEPT ![p].available_buffers = SubSeq(avail, 1, Len(avail) - 1)]
        /\ ret' = [kind |-> "recycled", pool |-> p, buffer |-> entry[1], offset |-> entry[2]]
        /\ UNCHANGED <<handles, wl_buffers, panicked>>

\* variant: the oldest entry of the free list is taken
RecycleOldest(p) ==
    LET avail == pools[p].available_buffers
        entry == avail[1]
    IN  /\ avail # <<>>
        /\ pools' = [pools EXCEPT ![p].available_buffers = Tail(avail)]
        /\ handles' = [handles EXCEPT ![entry[1]].loaned = TRUE]
        /\ ret' = [kind |-> "recycled", pool |-> p, buffer |-> entry[1], offset |-> entry[2]]
        /\ UNCHANGED <<wl_buffers, panicked>>

\* free list non-empty: pop the last entry, mark it loaned, return its slice
Recycle(p) ==
    LET avail == pools[p].available_buffers
        entry == avail[Len(avail)]
        buffer == entry[1]
        offset == entry[2]
    IN  /\ avail # <<>>
        /\ pools' = [pools EXCEPT ![p].available_buffers = SubSeq(avail, 1, Len(avail) - 1)]
        /\ handles' = [handles EXCEPT ![buffer].loaned = TRUE]
        /\ ret' = [kind |-> "recycled", pool |-> p, buffer |-> buffer, offset |-> offset]
        /\ UNCHANGED <<wl_buffers, panicked>>

\* ftruncate(&self.fd, new_size)? fails
GrowFtruncateFail(p) ==
    /\ pools[p].available_buffers = <<>>
    /\ ret' = [kind |-> "err_ftruncate", pool |-> p, buffer |-> 0, offset |-> 0]
    /\ UNCHANGED <<pools, handles, wl_buffers, panicked>>

\* variant: the mapping length is taken from the file even though remap failed
GrowRemapFailLenUpdated(p) ==
    LET old_size == pools[p].mappingLen
        new_size == old_size + buffer_size(pools[p].width, pools[p].height)
    IN  /\ pools[p].available_buffers = <<>>
        /\ pools' = [pools EXCEPT ![p].fileLen = new_size, ![p].mappingLen = new_size]
        /\ ret' = [kind |-> "err_remap", pool |-> p, buffer |-> 0, offset |-> 0]
        /\ UNCHANGED <<handles, wl_buffers, panicked>>

\* variant: the wl_shm_pool is resized before the remap is attempted
GrowRemapFailAfterResize(p) ==
    LET old_size == pools[p].mappingLen
        new_size == old_size + buffer_size(pools[p].width, pools[p].height)
    IN  /\ pools[p].available_buffers = <<>>
        /\ pools' = [pools EXCEPT ![p].fileLen = new_size, ![p].shmSize = AsI32(new_size)]
        /\ ret' = [kind |-> "err_remap", pool |-> p, buffer |-> 0, offset |-> 0]
        /\ UNCHANGED <<handles, wl_buffers, panicked>>

\* ftruncate succeeds, self.mapping.remap(new_size, ..)? fails
GrowRemapFail(p) ==
    LET old_size == pools[p].mappingLen
        new_size == old_size + buffer_size(pools[p].width, pools[p].height)
    IN  /\ pools[p].available_buffers = <<>>
        /\ pools' = [pools EXCEPT ![p].fileLen = new_size]
        /\ ret' = [kind |-> "err_remap", pool |-> p, buffer |-> 0, offset |-> 0]
        /\ UNCHANGED <<handles, wl_buffers, panicked>>

\* variant: every new slot is placed at the start of the segment
NewSlotOffsetAtZero(old_size) == 0

\* offset of the slot created by growth
NewSlotOffset(old_size) == old_size

\* variant: the wl_shm_pool is not told about the new size
GrowOkNoResize(p) ==
    LET old_size == pools[p].mappingLen
        new_size == old_size + buffer_size(pools[p].width, pools[p].height)
    IN  /\ pools[p].available_buffers = <<>>
        /\ Len(handles) < MaxBuffers
        /\ pools' = [pools EXCEPT ![p].fileLen = new_size,
                                  ![p].mappingLen = new_size]
        /\ handles' = Append(handles, [offset |-> old_size, pool |-> p, loaned |-> TRUE])
        /\ wl_buffers' = Append(wl_buffers,
                                [pool |-> p, offset |-> AsI32(old_size),
                                 width |-> AsI32(pools[p].width),
                                 height |-> AsI32(pools[p].height),
                                 stride |-> stride_arg(pools[p].width),
                                 destroys |-> 0, destroyed_by |-> "none"])
        /\ ret' = [kind |-> "grown", pool |-> p, buffer |-> Len(handles) + 1,
                   offset |-> old_size]
        /\ UNCHANGED panicked

\* variant: the wl_shm_pool is resized to the size before the growth
GrowOkResizeOld(p) ==
    LET old_size == pools[p].mappingLen
        new_size == old_size + buffer_size(pools[p].width, pools[p].height)
    IN  /\ pools[p].available_buffers = <<>>
        /\ Len(handles) < MaxBuffers
        /\ pools' = [pools EXCEPT ![p].fileLen = new_size,
                                  ![p].mappingLen = new_size,
                                  ![p].shmSize = AsI32(old_size)]
        /\ handles' = Append(handles, [offset |-> old_size, pool |-> p, loaned |-> TRUE])
        /\ wl_buffers' = Append(wl_buffers,
                                [pool |-> p, offset |-> AsI32(old_size),
                                 width |-> AsI32(pools[p].width),
                                 height |-> AsI32(pools[p].height),
                                 stride |-> stride_arg(pools[p].width),
                                 destroys |-> 0, destroyed_by |-> "none"])
        /\ ret' = [kind |-> "grown", pool |-> p, buffer |-> Len(handles) + 1,
                   offset |-> old_size]
        /\ UNCHANGED panicked

\* ftruncate and remap succeed: resize the wl_shm_pool, create handle and wl_buffer
GrowOk(p) ==
    LET old_size == pools[p].mappingLen
        new_size == old_size + buffer_size(pools[p].width, pools[p].height)
        new_handle == [offset |-> NewSlotOffset(old_size), pool |-> p, loaned |-> TRUE]
        buffer == [pool |-> p,
                   offset |-> AsI32(NewSlotOffset(old_size)),
                   width |-> AsI32(pools[p].width),
                   height |-> AsI32(pools[p].height),
                   stride |-> stride_arg(pools[p].width),
                   destroys |-> 0,
                   destroyed_by |-> "none"]
    IN  /\ pools[p].available_buffers = <<>>
        /\ Len(handles) < MaxBuffers
        /\ pools' = [pools EXCEPT ![p].fileLen = new_size,
                                  ![p].mappingLen = new_size,
                                  ![p].shmSize = AsI32(new_size)]
        /\ handles' = Append(handles, new_handle)
        /\ wl_buffers' = Append(wl_buffers, buffer)
        /\ ret' = [kind |-> "grown", pool |-> p, buffer |-> Len(handles) + 1,
                   offset |-> new_handle.offset]
        /\ UNCHANGED panicked

GetBuffer(p) ==
    /\ panicked = NoPanic
    /\ UNCHANGED <<scale, threads>>
    /\ pools[p].state = "live"
    /\ \/ Recycle(p)
       \/ GrowFtruncateFail(p)
       \/ GrowRemapFail(p)
       \/ GrowOk(p)

\* ------------------------------- BufferDispatch::event / BufferHandle::release
\* variant: no assertion, a second release pushes the buffer again
ReleasePanicSilentPush(b) ==
    LET p == handles[b].pool
    IN  /\ ~handles[b].loaned
        /\ Upgrade(p)
        /\ pools' = [pools EXCEPT ![p].available_buffers =
                        Append(@, <<b, handles[b].offset>>)]
        /\ ret' = NoRet
        /\ UNCHANGED <<handles, wl_buffers, panicked>>

\* the swap found the flag already false: assert! fails
ReleasePanic(b) ==
    /\ ~handles[b].loaned
    /\ panicked' = b
    /\ ret' = NoRet
    /\ UNCHANGED <<pools, handles, wl_buffers>>

\* variant: the pushed entry carries the offset of the segment start
ReleasePushOffsetZero(b) ==
    LET p == handles[b].pool
    IN  /\ handles[b].loaned
        /\ Upgrade(p)
        /\ handles' = [handles EXCEPT ![b].loaned = FALSE]
        /\ pools' = [pools EXCEPT ![p].available_buffers = Append(@, <<b, 0>>)]
        /\ ret' = NoRet
        /\ UNCHANGED <<wl_buffers, panicked>>

\* variant: the destroy is not under an else, so a pushed buffer is destroyed too
ReleasePushAndDestroy(b) ==
    LET p == handles[b].pool
    IN  /\ handles[b].loaned
        /\ Upgrade(p)
        /\ handles' = [handles EXCEPT ![b].loaned = FALSE]
        /\ pools' = [pools EXCEPT ![p].available_buffers =
                        Append(@, <<b, handles[b].offset>>)]
        /\ wl_buffers' = [wl_buffers EXCEPT ![b].destroys = @ + 1,
                                            ![b].destroyed_by = "release"]
        /\ ret' = NoRet
        /\ UNCHANGED panicked

\* the pool is alive: push (buffer, offset) onto its free list
ReleasePush(b) ==
    LET p == handles[b].pool
    IN  /\ handles[b].loaned
        /\ Upgrade(p)
        /\ handles' = [handles EXCEPT ![b].loaned = FALSE]
        /\ pools' = [pools EXCEPT ![p].available_buffers =
                        Append(@, <<b, handles[b].offset>>)]
        /\ ret' = NoRet
        /\ UNCHANGED <<wl_buffers, panicked>>

\* variant: the handle holds the free list strongly, so the push always happens
ReleaseDestroyPushes(b) ==
    LET p == handles[b].pool
    IN  /\ handles[b].loaned
        /\ ~Upgrade(p)
        /\ handles' = [handles EXCEPT ![b].loaned = FALSE]
        /\ pools' = [pools EXCEPT ![p].available_buffers =
                        Append(@, <<b, handles[b].offset>>)]
        /\ ret' = NoRet
        /\ UNCHANGED <<wl_buffers, panicked>>

\* variant: the buffer of a dead pool is forgotten without a destroy request
ReleaseDestroyLeaks(b) ==
    LET p == handles[b].pool
    IN  /\ handles[b].loaned
        /\ ~Upgrade(p)
        /\ handles' = [handles EXCEPT ![b].loaned = FALSE]
        /\ ret' = NoRet
        /\ UNCHANGED <<pools, wl_buffers, panicked>>

\* the pool is gone: destroy the wl_buffer
ReleaseDestroy(b) ==
    LET p == handles[b].pool
    IN  /\ handles[b].loaned
        /\ ~Upgrade(p)
        /\ handles' = [handles EXCEPT ![b].loaned = FALSE]
        /\ wl_buffers' = [wl_buffers EXCEPT ![b].destroys = @ + 1,
                                        ![b].destroyed_by = "release"]
        /\ ret' = NoRet
        /\ UNCHANGED <<pools, panicked>>

Release(b) ==
    /\ panicked = NoPanic
    /\ UNCHANGED <<scale, threads>>
    /\ \/ ReleasePanic(b)
       \/ ReleasePush(b)
       \/ ReleaseDestroy(b)

\* ------------------------- Drop for BufferPool, Drop for AvailableBufferPool
\* ids of the buffers in a free list
FreeIds(avail) == {avail[i][1] : i \in 1..Len(avail)}

\* variant: dropping the pool destroys every buffer the pool created
DropDestroysEverySlot(p, b) == IF handles[b].pool = p THEN 1 ELSE 0

\* variant: AvailableBufferPool has no Drop, its buffers are never destroyed
DropDestroysNothing(p, b) == 0

\* destroy requests sent for buffer b when the free list of pool p is dropped:
\* one for each entry of the list that holds b
DropDestroys(p, b) ==
    LET avail == pools[p].available_buffers
    IN  Cardinality({i \in 1..Len(avail) : avail[i][1] = b})

\* variant: the dropped free list keeps its entries after destroying them
DroppedKeepsEntries(pool) ==
    [pool EXCEPT !.state = "dropped",
                 !.shmDestroys = @ + 1]

\* the pool record after drop: wl_shm_pool destroyed, fd, mapping and free list gone
Dropped(pool) ==
    [pool EXCEPT !.state = "dropped",
                 !.shmDestroys = @ + 1,
                 !.available_buffers = <<>>]

\* the wl_buffers after the free list of pool p has been dropped
AfterDrop(p) ==
    [b \in DOMAIN wl_buffers |->
        IF DropDestroys(p, b) > 0
        THEN [wl_buffers[b] EXCEPT !.destroys = @ + DropDestroys(p, b),
                                   !.destroyed_by = "drop"]
        ELSE wl_buffers[b]]

DropPool(p) ==
    /\ panicked = NoPanic
    /\ UNCHANGED <<scale, threads>>
    /\ pools[p].state = "live"
    /\ pools' = [pools EXCEPT ![p] = Dropped(pools[p])]
    /\ wl_buffers' = AfterDrop(p)
    /\ ret' = NoRet
    /\ UNCHANGED <<handles, panicked>>

\* self.buffer_pool = BufferPool::new(..): pool p is constructed, then the
\* pool q the window held is dropped by the assignment
Replace(q, p, width, height) ==
    /\ panicked = NoPanic
    /\ UNCHANGED <<scale, threads>>
    /\ pools[q].state = "live"
    /\ IsNext(p)
    /\ pools' = [pools EXCEPT ![p] = NewPool(width, height),
                              ![q] = Dropped(pools[q])]
    /\ wl_buffers' = AfterDrop(q)
    /\ ret' = NoRet
    /\ UNCHANGED <<handles, panicked>>

\* ------------------------------------------------------------------ Window
\* the scales the compositor sends: 1.0, 1.5 and 2.0
Scales == {UnitScale, UnitScale + UnitScale \div 2, 2 * UnitScale}

\* variant: the new pool is given the unscaled window size
ScaledDimUnscaled(dim, s) == dim

\* (dim as f64 * scale).round() as u32, for scale = s / 120
ScaledDim(dim, s) == (2 * dim * s + UnitScale) \div (2 * UnitScale)

\* get_buffer has returned an error: handle_frame propagates it and the
\* program ends (main returns it, the frame callback panics on it)
Failed == ret.kind \in {"err_ftruncate", "err_remap"}

\* Window::handle_frame, as far as the pool is concerned
HandleFrame ==
    /\ ~Failed
    /\ \E p \in LivePools : GetBuffer(p)

\* the scale differs: a pool of the scaled size replaces the window's pool
SetScaleReplace(s) ==
    \E q \in LivePools, p \in PoolIds :
        /\ IsNext(p)
        /\ scale' = s
        /\ pools' = [pools EXCEPT
                        ![p] = NewPool(ScaledDim(WINDOW_WIDTH, s), ScaledDim(WINDOW_HEIGHT, s)),
                        ![q] = Dropped(pools[q])]
        /\ wl_buffers' = AfterDrop(q)
        /\ ret' = NoRet
        /\ UNCHANGED <<handles, panicked>>

\* the scale differs and BufferPool::new fails: .expect(..) panics
SetScaleNewFails(s) ==
    /\ scale' = s
    /\ panicked' = Aborted
    /\ ret' = NoRet
    /\ UNCHANGED <<pools, handles, wl_buffers>>

\* variant: the pool is replaced on every call, whatever the scale
SetScaleAlways(s) ==
    /\ panicked = NoPanic
    /\ UNCHANGED threads
    /\ ~Failed
    /\ SetScaleReplace(s) \/ SetScaleNewFails(s)

\* Window::set_scale
SetScale(s) ==
    /\ panicked = NoPanic
    /\ UNCHANGED threads
    /\ ~Failed
    /\ IF s # scale
       THEN SetScaleReplace(s) \/ SetScaleNewFails(s)
       ELSE UNCHANGED vars

\* a wl_buffer release event dispatched to the window
WindowRelease(b) ==
    /\ ~Failed
    /\ Release(b)

\* main has constructed the window with its first pool
InitWindow ==
    /\ pools = [p \in PoolIds |->
                    IF p = 1 THEN NewPool(WINDOW_WIDTH, WINDOW_HEIGHT) ELSE NoPool]
    /\ handles = <<>>
    /\ wl_buffers = <<>>
    /\ ret = NoRet
    /\ panicked = NoPanic
    /\ scale = UnitScale
    /\ ThreadsIdle

NextWindow ==
    \/ HandleFrame
    \/ \E s \in Scales : SetScale(s)
    \/ \E b \in BufferIds : WindowRelease(b)

WindowSpec == InitWindow /\ [][NextWindow]_vars

\* ------------------------------------------- sizes across the word range
\* widths and heights up to the word size: powers of two whose product is at
\* most the u32 modulus, and pairs whose product is just above it
PowerPairs == {e \in (0..WordBits) \X (0..WordBits) : e[1] + e[2] <= WordBits}

NumInputs ==
    {<<Pow2(e[1]), Pow2(e[2])>> : e \in PowerPairs} \cup
    {<<Pow2(e[1]) + 1, Pow2(e[2])>> :
        e \in {x \in PowerPairs : x[1] + x[2] = WordBits /\ x[1] >= 1}}

\* get_buffer while the next size still fits the model's integers
GetBufferNum(p) ==
    /\ \/ pools[p].mappingLen = 0
       \/ pools[p].mappingLen + buffer_size(pools[p].width, pools[p].height) <= U32Mod
    /\ GetBuffer(p)

NextNum ==
    \/ \E p \in PoolIds, g \in NumInputs : New(p, g[1], g[2])
    \/ \E p \in PoolIds : GetBufferNum(p)

NumSpec == Init /\ [][NextNum]_vars

\* ------------------------------------- release on a thread of its own
\* The steps of BufferHandle::release, of get_buffer and of the pool's drop,
\* interleaved: the release handler runs on one thread, the owner of the
\* BufferPool on another.

\* BufferPool::new on the owning thread: the Arc starts with one strong
\* reference; one pool is followed from its construction to past its drop
ConcNew(p, width, height) ==
    /\ main_thread.pc = "idle"
    /\ \A q \in PoolIds : pools[q].state = "none"
    /\ IsNext(p)
    /\ width * height < U32Mod
    /\ pools' = [pools EXCEPT ![p] = NewPool(width, height)]
    /\ strong' = [strong EXCEPT ![p] = 1]
    /\ ret' = NoRet
    /\ UNCHANGED <<handles, wl_buffers, panicked, scale, mutex, release_thread, main_thread>>

\* get_buffer: self.available_buffers.lock()
MainLock(p) ==
    /\ main_thread.pc = "idle"
    /\ pools[p].state = "live"
    /\ mutex = "none"
    /\ mutex' = "main"
    /\ main_thread' = [main_thread EXCEPT !.pc = "locked"]
    /\ ret' = NoRet
    /\ UNCHANGED <<pools, handles, wl_buffers, panicked, scale, strong, release_thread>>

\* get_buffer: pop() gives an entry, the guard is dropped
MainPop(p) ==
    LET avail == pools[p].available_buffers
        entry == avail[Len(avail)]
    IN  /\ main_thread.pc = "locked"
        /\ pools[p].state = "live"
        /\ avail # <<>>
        /\ pools' = [pools EXCEPT ![p].available_buffers = SubSeq(avail, 1, Len(avail) - 1)]
        /\ mutex' = "none"
        /\ main_thread' = [pc |-> "store", buffer |-> entry[1], offset |-> entry[2]]
        /\ UNCHANGED <<handles, wl_buffers, ret, panicked, scale, strong, release_thread>>

\* get_buffer: handle.loaned.store(true), the popped buffer is returned
MainStore(p) ==
    /\ main_thread.pc = "store"
    /\ pools[p].state = "live"
    /\ handles' = [handles EXCEPT ![main_thread.buffer].loaned = TRUE]
    /\ ret' = [kind |-> "recycled", pool |-> p, buffer |-> main_thread.buffer,
               offset |-> main_thread.offset]
    /\ main_thread' = MainIdle
    /\ UNCHANGED <<pools, wl_buffers, panicked, scale, strong, mutex, release_thread>>

\* get_buffer: pop() gives None, the guard is dropped and the pool grows; the
\* growth touches nothing the release handler reads or writes
MainGrow(p) ==
    /\ main_thread.pc = "locked"
    /\ pools[p].state = "live"
    /\ \/ GrowFtruncateFail(p)
       \/ GrowRemapFail(p)
       \/ GrowOk(p)
    /\ mutex' = "none"
    /\ main_thread' = MainIdle
    /\ UNCHANGED <<scale, strong, release_thread>>

\* Drop for BufferPool: self.shm_pool.destroy()
MainDropShm(p) ==
    /\ main_thread.pc = "idle"
    /\ pools[p].state = "live"
    /\ pools' = [pools EXCEPT ![p].shmDestroys = @ + 1]
    /\ main_thread' = [main_thread EXCEPT !.pc = "drop_fields"]
    /\ ret' = NoRet
    /\ UNCHANGED <<handles, wl_buffers, panicked, scale, strong, mutex, release_thread>>

\* the fields of the BufferPool are dropped: the Arc gives up its strong
\* reference and, if that was the last one, Drop for AvailableBufferPool runs
MainDropArc(p) ==
    /\ main_thread.pc = "drop_fields"
    /\ pools[p].state = "live"
    /\ strong' = [strong EXCEPT ![p] = @ - 1]
    /\ IF strong[p] = 1
       THEN /\ pools' = [pools EXCEPT ![p].state = "dropped",
                                      ![p].available_buffers = <<>>]
            /\ wl_buffers' = AfterDrop(p)
       ELSE /\ pools' = [pools EXCEPT ![p].state = "dropped"]
            /\ UNCHANGED wl_buffers
    /\ main_thread' = MainIdle
    /\ UNCHANGED <<handles, ret, panicked, scale, mutex, release_thread>>

\* release: self.loaned.swap(false) and the assertion on the value it read;
\* a failed assertion ends the release thread
RelSwap(b) ==
    /\ release_thread.pc = "idle"
    /\ panicked = NoPanic
    /\ IF handles[b].loaned
       THEN /\ handles' = [handles EXCEPT ![b].loaned = FALSE]
            /\ release_thread' = [pc |-> "upgrade", buffer |-> b, last |-> FALSE]
            /\ UNCHANGED panicked
       ELSE /\ panicked' = b
            /\ UNCHANGED <<handles, release_thread>>
    /\ UNCHANGED <<pools, wl_buffers, ret, scale, strong, mutex, main_thread>>

\* variant: the handler looks whether the free list is alive but takes no
\* strong reference to it
RelUpgradeNoCount ==
    LET p == handles[release_thread.buffer].pool
    IN  /\ release_thread.pc = "upgrade"
        /\ release_thread' = [release_thread EXCEPT
                                 !.pc = IF strong[p] > 0 THEN "lock" ELSE "destroy"]
        /\ UNCHANGED <<pools, handles, wl_buffers, ret, panicked, scale, strong,
                       mutex, main_thread>>

\* release: self.pool.upgrade(), a new strong reference unless none is left
RelUpgrade ==
    LET p == handles[release_thread.buffer].pool
    IN  /\ release_thread.pc = "upgrade"
        /\ IF strong[p] > 0
           THEN /\ strong' = [strong EXCEPT ![p] = @ + 1]
                /\ release_thread' = [release_thread EXCEPT !.pc = "lock"]
           ELSE /\ release_thread' = [release_thread EXCEPT !.pc = "destroy"]
                /\ UNCHANGED strong
        /\ UNCHANGED <<pools, handles, wl_buffers, ret, panicked, scale, mutex, main_thread>>

\* release: pool.lock()
RelLock ==
    /\ release_thread.pc = "lock"
    /\ mutex = "none"
    /\ mutex' = "release"
    /\ release_thread' = [release_thread EXCEPT !.pc = "push"]
    /\ UNCHANGED <<pools, handles, wl_buffers, ret, panicked, scale, strong, main_thread>>

\* release: available_buffers.push((buffer.clone(), self.offset)), the guard
\* is dropped at the end of the statement
RelPush ==
    LET b == release_thread.buffer
        p == handles[b].pool
    IN  /\ release_thread.pc = "push"
        /\ pools' = [pools EXCEPT ![p].available_buffers =
                        Append(@, <<b, handles[b].offset>>)]
        /\ mutex' = "none"
        /\ release_thread' = [release_thread EXCEPT !.pc = "drop_temp"]
        /\ UNCHANGED <<handles, wl_buffers, ret, panicked, scale, strong, main_thread>>

\* release: the upgraded Arc goes out of scope; if it was the last strong
\* reference, Drop for AvailableBufferPool runs on the release thread
RelDropTemp ==
    LET p == handles[release_thread.buffer].pool
    IN  /\ release_thread.pc = "drop_temp"
        /\ strong' = [strong EXCEPT ![p] = @ - 1]
        /\ IF strong[p] = 1
           THEN /\ pools' = [pools EXCEPT ![p].available_buffers = <<>>]
                /\ wl_buffers' = AfterDrop(p)
           ELSE UNCHANGED <<pools, wl_buffers>>
        /\ release_thread' = [ReleaseIdle EXCEPT !.last = (strong[p] = 1)]
        /\ UNCHANGED <<handles, ret, panicked, scale, mutex, main_thread>>

\* release: the upgrade failed, buffer.destroy()
RelDestroy ==
    LET b == release_thread.buffer
    IN  /\ release_thread.pc = "destroy"
        /\ wl_buffers' = [wl_buffers EXCEPT ![b].destroys = @ + 1,
                                            ![b].destroyed_by = "release"]
        /\ release_thread' = ReleaseIdle
        /\ UNCHANGED <<pools, handles, ret, panicked, scale, strong, mutex, main_thread>>

NextConc ==
    \/ \E p \in PoolIds, g \in Geometries : ConcNew(p, g[1], g[2])
    \/ \E p \in PoolIds : MainLock(p)
    \/ \E p \in PoolIds : MainPop(p)
    \/ \E p \in PoolIds : MainStore(p)
    \/ \E p \in PoolIds : MainGrow(p)
    \/ \E p \in PoolIds : MainDropShm(p)
    \/ \E p \in PoolIds : MainDropArc(p)
    \/ \E b \in BufferIds : RelSwap(b)
    \/ RelUpgrade
    \/ RelLock
    \/ RelPush
    \/ RelDropTemp
    \/ RelDestroy

ConcSpec == Init /\ [][NextConc]_vars

\* -------------------------------------------------------------- behaviours
Next ==
    \/ \E p \in PoolIds, g \in Geometries : New(p, g[1], g[2])
    \/ \E p \in PoolIds : GetBuffer(p)
    \/ \E b \in BufferIds : Release(b)
    \/ \E p \in PoolIds : DropPool(p)
    \/ \E q \in PoolIds, p \in PoolIds, g \in Geometries : Replace(q, p, g[1], g[2])

Spec == Init /\ [][Next]_vars

TypeOK ==
    /\ panicked \in {NoPanic, Aborted} \cup BufferIds
    /\ scale \in Scales
    /\ Len(handles) = Len(wl_buffers)
    /\ Len(handles) <= MaxBuffers
    /\ \A p \in PoolIds : pools[p].state \in {"none", "live", "dropped", "failed"}
    /\ Cardinality(LivePools) <= 1
    /\ strong \in [PoolIds -> 0..2]
    /\ mutex \in {"none", "main", "release"}
    /\ release_thread.pc \in {"idle", "upgrade", "lock", "push", "drop_temp", "destroy"}
    /\ main_thread.pc \in {"idle", "locked", "store", "drop_fields"}

\* ================================================================== claims
\* the slots (BufferHandles) ever created by pool p
SlotsOf(p) == {b \in BufferIds : handles[b].pool = p}

\* the spec's S = width * height * 4 bytes for pool p
ExtentS(p) == pools[p].width * pools[p].height * 4

\* the byte ranges [offset, offset + S) of two slots of one pool share a byte
RangesOverlap(b1, b2) ==
    LET S == ExtentS(handles[b1].pool)
    IN  /\ handles[b1].offset < handles[b2].offset + S
        /\ handles[b2].offset < handles[b1].offset + S

\* a get_buffer call has returned in this step
Returned == ret' # NoRet /\ ret' # ret

\* C1: in a pool with width >= 1 and height >= 1, the byte ranges
\* [offset, offset + S) of two distinct slots that are both on loan never overlap.
C1_LoanedSlicesDisjoint ==
    \A b1, b2 \in BufferIds :
        ( /\ b1 # b2
          /\ handles[b1].pool = handles[b2].pool
          /\ pools[handles[b1].pool].width >= 1
          /\ pools[handles[b1].pool].height >= 1
          /\ handles[b1].loaned
          /\ handles[b2].loaned )
        => ~RangesOverlap(b1, b2)

\* a recycled buffer has just been returned while two other slots of the pool are on loan
C1_Witness ==
    /\ ret.kind = "recycled"
    /\ Cardinality({b \in SlotsOf(ret.pool) : handles[b].loaned}) >= 3

\* C2: on a live pool the mapping length is S times the number of slots ever
\* created for the pool, and the number of slots of a pool never decreases.
C2_GrowthInvariant ==
    /\ [](\A p \in PoolIds :
            pools[p].state = "live"
                => pools[p].mappingLen = ExtentS(p) * Cardinality(SlotsOf(p)))
    /\ [][\A p \in PoolIds :
            Cardinality(SlotsOf(p))' >= Cardinality(SlotsOf(p))]_vars

\* a live pool with two slots, one released, after a growth whose remap failed
C2_Witness ==
    \E p \in PoolIds :
        /\ pools[p].state = "live"
        /\ Cardinality(SlotsOf(p)) >= 2
        /\ pools[p].fileLen > pools[p].mappingLen
        /\ pools[p].available_buffers # <<>>

\* b is an entry of some pool's free list
InSomeFreeList(b) == \E p \in PoolIds : b \in FreeIds(pools[p].available_buffers)

\* get_buffer has returned a buffer (not an error) in this step
ReturnedBuffer == Returned /\ ret'.kind \in {"recycled", "grown"}

\* C3: when the release of a buffer on loan arrives after its pool was
\* destroyed, the remote buffer is destroyed and pushed onto no free list, and
\* no later get_buffer call on any pool returns it.
C3_ReleaseAfterPoolDestroyed ==
    /\ [][\A b \in BufferIds :
            ( /\ Release(b)
              /\ handles[b].loaned
              /\ pools[handles[b].pool].state = "dropped" )
            => /\ wl_buffers[b].destroys = 0
               /\ wl_buffers'[b].destroys = 1
               /\ ~InSomeFreeList(b)']_vars
    /\ [](\A b \in BufferIds :
            wl_buffers[b].destroyed_by = "release" => ~InSomeFreeList(b))
    /\ [][\A b \in BufferIds :
            wl_buffers[b].destroyed_by = "release"
                => ~(ReturnedBuffer /\ ret'.buffer = b)]_vars

\* buffer b was on loan when its pool was destroyed, its release has arrived,
\* and get_buffer has since returned on another pool
C3_Witness ==
    \E b \in BufferIds :
        /\ wl_buffers[b].destroyed_by = "release"
        /\ pools[handles[b].pool].state = "dropped"
        /\ ret.kind \in {"recycled", "grown"}
        /\ ret.buffer # b

\* C4: a release delivered for a slot that is not on loan, whether its pool is
\* live or destroyed, fails the assertion and changes neither a free list nor
\* any buffer: nothing is pushed and nothing is destroyed.
C4_DoubleReleaseAsserts ==
    [][\A b \in BufferIds :
        (Release(b) /\ ~handles[b].loaned)
        => /\ panicked' = b
           /\ pools' = pools
           /\ wl_buffers' = wl_buffers
           /\ handles' = handles]_vars

\* the second release of a buffer that sits in the free list of a live pool
C4_Witness ==
    /\ panicked # NoPanic
    /\ pools[handles[panicked].pool].state = "live"
    /\ panicked \in FreeIds(pools[handles[panicked].pool].available_buffers)

\* a release delivered for a buffer already destroyed with its pool
C4_WitnessPoolDestroyed ==
    /\ panicked # NoPanic
    /\ pools[handles[panicked].pool].state = "dropped"

\* C5: a get_buffer call on a pool whose free list is non-empty returns an
\* entry of that free list and does not grow: mapping length, file length,
\* size given to the wl_shm_pool, handles and wl_buffers stay as they were.
C5_RecycleDoesNotGrow ==
    [][\A p \in PoolIds :
        (Returned /\ ret'.pool = p /\ pools[p].available_buffers # <<>>)
        => /\ ret'.kind = "recycled"
           /\ \E i \in 1..Len(pools[p].available_buffers) :
                pools[p].available_buffers[i] = <<ret'.buffer, ret'.offset>>
           /\ Len(pools'[p].available_buffers) = Len(pools[p].available_buffers) - 1
           /\ pools'[p].mappingLen = pools[p].mappingLen
           /\ pools'[p].fileLen = pools[p].fileLen
           /\ pools'[p].shmSize = pools[p].shmSize
           /\ Len(handles') = Len(handles)
           /\ wl_buffers' = wl_buffers]_vars

\* geometry 4x4: two growths to 128 bytes, the offset-0 buffer released and
\* then returned again with the length still 128
C5_Witness ==
    /\ ret.kind = "recycled"
    /\ ret.offset = 0
    /\ pools[ret.pool].width = 4
    /\ pools[ret.pool].height = 4
    /\ pools[ret.pool].mappingLen = 128
    /\ Cardinality(SlotsOf(ret.pool)) = 2

\* C6: a get_buffer call that finds the free list empty and does not fail
\* grows the mapping from old_len to old_len + S, gives old_len + S to the
\* wl_shm_pool, and creates exactly one handle with offset old_len and exactly
\* one wl_buffer bound to old_len and the pool's width and height.
C6_GrowthCreatesOneSlot ==
    [][\A p \in PoolIds :
        ( /\ Returned
          /\ ret'.pool = p
          /\ pools[p].available_buffers = <<>>
          /\ ret'.kind \notin {"err_ftruncate", "err_remap"} )
        => LET old_len == pools[p].mappingLen
               new == Len(handles) + 1
           IN  /\ pools'[p].mappingLen = old_len + ExtentS(p)
               /\ pools'[p].shmSize = old_len + ExtentS(p)
               /\ Len(handles') = new
               /\ Len(wl_buffers') = new
               /\ \A b \in BufferIds :
                    handles'[b] = handles[b] /\ wl_buffers'[b] = wl_buffers[b]
               /\ handles'[new].offset = old_len
               /\ handles'[new].pool = p
               /\ wl_buffers'[new].pool = p
               /\ wl_buffers'[new].offset = old_len
               /\ wl_buffers'[new].width = pools[p].width
               /\ wl_buffers'[new].height = pools[p].height
               /\ wl_buffers'[new].destroys = 0
               /\ ret'.buffer = new
               /\ ret'.offset = old_len]_vars

\* a second growth of a pool: a slot at a non-zero offset has just been created
C6_Witness ==
    /\ ret.kind = "grown"
    /\ ret.offset > 0
    /\ pools[ret.pool].mappingLen = ret.offset + ExtentS(ret.pool)

\* C7: the offset paired with a wl_buffer never changes: free-list entries
\* carry the offset the buffer was created with, get_buffer returns the buffer
\* with that offset, and neither handle nor wl_buffer offset is ever rewritten.
C7_PairingStable ==
    /\ [](\A p \in PoolIds :
            \A i \in 1..Len(pools[p].available_buffers) :
                LET e == pools[p].available_buffers[i]
                IN  /\ e[1] \in SlotsOf(p)
                    /\ e[2] = handles[e[1]].offset
                    /\ e[2] = wl_buffers[e[1]].offset)
    /\ [][ReturnedBuffer
            => /\ wl_buffers'[ret'.buffer].offset = ret'.offset
               /\ handles'[ret'.buffer].offset = ret'.offset
               /\ wl_buffers'[ret'.buffer].pool = ret'.pool]_vars
    /\ [][\A b \in BufferIds :
            /\ wl_buffers'[b].offset = wl_buffers[b].offset
            /\ wl_buffers'[b].pool = wl_buffers[b].pool
            /\ handles'[b].offset = handles[b].offset
            /\ handles'[b].pool = handles[b].pool]_vars

\* a slot at a non-zero offset returned again after its release
C7_Witness ==
    /\ ret.kind = "recycled"
    /\ ret.offset > 0
    /\ wl_buffers[ret.buffer].offset = ret.offset

\* the state of slot b in the release protocol
SlotState(b) ==
    IF wl_buffers[b].destroys > 0 THEN "Destroyed"
    ELSE IF handles[b].loaned THEN "Loaned"
    ELSE "Available"

\* C8: destroying a pool destroys its wl_shm_pool and every wl_buffer that is
\* in its free list at that moment, and no wl_buffer that is on loan; a loaned
\* buffer is destroyed only by the step that delivers its own release.
C8_DropDestroysFreeOnly ==
    /\ [][\A p \in PoolIds :
            (pools[p].state = "live" /\ pools'[p].state = "dropped")
            => /\ pools[p].shmDestroys = 0
               /\ pools'[p].shmDestroys = 1
               /\ \A b \in FreeIds(pools[p].available_buffers) :
                    wl_buffers[b].destroys = 0 /\ wl_buffers'[b].destroys = 1
               /\ \A b \in BufferIds :
                    handles[b].loaned => wl_buffers'[b].destroys = 0]_vars
    /\ [](\A b \in BufferIds : handles[b].loaned => wl_buffers[b].destroys = 0)
    /\ [][\A b \in BufferIds :
            (handles[b].loaned /\ wl_buffers'[b].destroys # wl_buffers[b].destroys)
            => Release(b)]_vars

\* a destroyed pool one of whose buffers was destroyed with it while another
\* is still on loan and not destroyed
C8_Witness ==
    \E p \in PoolIds : \E b1, b2 \in SlotsOf(p) :
        /\ pools[p].state = "dropped"
        /\ pools[p].shmDestroys = 1
        /\ wl_buffers[b1].destroyed_by = "drop"
        /\ handles[b2].loaned
        /\ wl_buffers[b2].destroys = 0

\* C9 as stated: a slot's state changes only from Loaned to Available (release,
\* pool live) or from Loaned to Destroyed (release, pool destroyed).
C9_OnlyReleaseTransitions ==
    [][\A b \in BufferIds :
        SlotState(b)' # SlotState(b)
        => \/ /\ SlotState(b) = "Loaned"
              /\ SlotState(b)' = "Available"
              /\ pools[handles[b].pool].state = "live"
           \/ /\ SlotState(b) = "Loaned"
              /\ SlotState(b)' = "Destroyed"
              /\ pools[handles[b].pool].state = "dropped"]_vars

\* C9 amended: a slot's state changes only from Loaned to Available (release,
\* pool live), Loaned to Destroyed (release, pool destroyed), Available to
\* Loaned (get_buffer returns it from the free list) or Available to Destroyed
\* (its pool is destroyed while it is in the free list); a release delivered
\* to an Available slot fails the assertion and leaves the slot Available.
C9_SlotTransitions ==
    [][\A b \in BufferIds :
        /\ SlotState(b)' # SlotState(b)
           => \/ /\ SlotState(b) = "Loaned"
                 /\ SlotState(b)' = "Available"
                 /\ pools[handles[b].pool].state = "live"
                 /\ Release(b)
              \/ /\ SlotState(b) = "Loaned"
                 /\ SlotState(b)' = "Destroyed"
                 /\ pools[handles[b].pool].state = "dropped"
                 /\ Release(b)
              \/ /\ SlotState(b) = "Available"
                 /\ SlotState(b)' = "Loaned"
                 /\ ReturnedBuffer
                 /\ ret'.buffer = b
              \/ /\ SlotState(b) = "Available"
                 /\ SlotState(b)' = "Destroyed"
                 /\ pools[handles[b].pool].state = "live"
                 /\ pools'[handles[b].pool].state = "dropped"
        /\ (Release(b) /\ SlotState(b) = "Available")
           => panicked' = b /\ SlotState(b)' = "Available"
        /\ (Release(b) /\ SlotState(b) = "Loaned")
           => SlotState(b)' \in {"Available", "Destroyed"}]_vars

\* one slot has gone Available -> Loaned (returned from the free list), one
\* went Loaned -> Destroyed and one Available -> Destroyed
C9_Witness ==
    /\ ret.kind = "recycled"
    /\ SlotState(ret.buffer) = "Loaned"
    /\ \E b1, b2 \in BufferIds :
        /\ wl_buffers[b1].destroyed_by = "release"
        /\ wl_buffers[b2].destroyed_by = "drop"

\* C10: a get_buffer call that fails in ftruncate or in remap creates no handle
\* and no wl_buffer, sends no resize to the wl_shm_pool, leaves every free
\* list, every loan flag and the mapping length unchanged, and calls ftruncate
\* at most once.
C10_FailedGrowthChangesNothing ==
    [][(Returned /\ ret'.kind \in {"err_ftruncate", "err_remap"})
        => /\ handles' = handles
           /\ wl_buffers' = wl_buffers
           /\ ret'.buffer = 0
           /\ \A p \in PoolIds :
                /\ pools'[p].shmSize = pools[p].shmSize
                /\ pools'[p].available_buffers = pools[p].available_buffers
                /\ pools'[p].mappingLen = pools[p].mappingLen
                /\ pools'[p].state = pools[p].state
                /\ pools'[p].fileLen \in
                     {pools[p].fileLen, pools[p].mappingLen + ExtentS(p)}]_vars

\* a growth whose remap failed on a pool that already has a slot on loan
C10_Witness ==
    /\ ret.kind = "err_remap"
    /\ pools[ret.pool].fileLen > pools[ret.pool].mappingLen
    /\ \E b \in SlotsOf(ret.pool) : handles[b].loaned

\* C11: a pool that has just been constructed has an empty free list, a file
\* and a mapping of length 0, no handle and no wl_buffer, and its wl_shm_pool
\* was created with the size of one buffer extent S.
C11_NewPoolIsEmpty ==
    [][\A p \in PoolIds :
        (pools[p].state = "none" /\ pools'[p].state # "none")
        => /\ pools'[p].state = "live"
           /\ pools'[p].available_buffers = <<>>
           /\ pools'[p].mappingLen = 0
           /\ pools'[p].fileLen = 0
           /\ pools'[p].shmDestroys = 0
           /\ \A b \in 1..Len(handles') :
                handles'[b].pool # p /\ wl_buffers'[b].pool # p
           /\ pools'[p].shmSize = pools'[p].width * pools'[p].height * 4
           /\ pools'[p].shmSize > 0]_vars

\* a pool just constructed in place of one that had created buffers
C11_Witness ==
    \E p \in PoolIds :
        /\ pools[p].state = "live"
        /\ SlotsOf(p) = {}
        /\ pools[p].mappingLen = 0
        /\ pools[p].shmSize = ExtentS(p)
        /\ handles # <<>>

\* C12: no wl_buffer is destroyed twice, and once a pool is destroyed each of
\* its buffers is either still on loan and not destroyed, or destroyed exactly
\* once; so when every loan of a destroyed pool has been released, every buffer
\* the pool created has been destroyed exactly once.
C12_DestroyedExactlyOnce ==
    /\ [](\A b \in BufferIds : wl_buffers[b].destroys <= 1)
    /\ [](\A p \in PoolIds : \A b \in SlotsOf(p) :
            pools[p].state = "dropped"
                => \/ handles[b].loaned /\ wl_buffers[b].destroys = 0
                   \/ ~handles[b].loaned /\ wl_buffers[b].destroys = 1)
    /\ [][\A b \in BufferIds :
            wl_buffers'[b].destroys >= wl_buffers[b].destroys]_vars

\* a destroyed pool all of whose loans have been released: one buffer was
\* destroyed with the free list, another by its late release
C12_Witness ==
    \E p \in PoolIds :
        /\ pools[p].state = "dropped"
        /\ \A b \in SlotsOf(p) : ~handles[b].loaned /\ wl_buffers[b].destroys = 1
        /\ \E b1, b2 \in SlotsOf(p) :
            /\ wl_buffers[b1].destroyed_by = "drop"
            /\ wl_buffers[b2].destroyed_by = "release"

\* C13: the free list of a live pool has as many entries as the pool has slots
\* released and not yet returned again, and holds no wl_buffer twice.
C13_FreeListCountsReleased ==
    \A p \in PoolIds :
        pools[p].state = "live"
        => LET avail == pools[p].available_buffers
           IN  /\ Len(avail) = Cardinality({b \in SlotsOf(p) : ~handles[b].loaned})
               /\ \A i, j \in 1..Len(avail) : avail[i][1] = avail[j][1] => i = j

\* two released slots wait in the free list after a third was returned again
C13_Witness ==
    /\ ret.kind = "recycled"
    /\ Len(pools[ret.pool].available_buffers) = 2
    /\ handles[ret.buffer].loaned

\* C14: a buffer returned by get_buffer, recycled or new, has its loan flag set
\* and is in no free list when the call returns; a handle is created loaned.
C14_ReturnedIsLoaned ==
    /\ [][ReturnedBuffer
            => /\ handles'[ret'.buffer].loaned
               /\ \A p \in PoolIds :
                    ret'.buffer \notin FreeIds(pools'[p].available_buffers)]_vars
    /\ [][\A b \in 1..Len(handles') :
            b > Len(handles) => handles'[b].loaned /\ ~InSomeFreeList(b)']_vars

\* a recycled buffer is on loan again while another slot is still free
C14_Witness ==
    /\ ret.kind = "recycled"
    /\ handles[ret.buffer].loaned
    /\ pools[ret.pool].available_buffers # <<>>

\* C15: in a pool with S > 0 every slot's offset is a multiple of S, never
\* changes, differs from the offset of every other slot of the pool, and while
\* the pool is live satisfies offset + S <= mapping length.
C15_SlotOffsets ==
    /\ [](\A p \in PoolIds : \A b \in SlotsOf(p) :
            ExtentS(p) > 0
            => /\ handles[b].offset % ExtentS(p) = 0
               /\ \A c \in SlotsOf(p) :
                    c # b => handles[c].offset # handles[b].offset
               /\ pools[p].state = "live"
                    => handles[b].offset + ExtentS(p) <= pools[p].mappingLen)
    /\ [][\A b \in BufferIds : handles'[b].offset = handles[b].offset]_vars

\* a live pool with three slots, the last at offset 2 * S
C15_Witness ==
    \E p \in PoolIds : \E b \in SlotsOf(p) :
        /\ pools[p].state = "live"
        /\ ExtentS(p) > 0
        /\ handles[b].offset = 2 * ExtentS(p)
        /\ pools[p].mappingLen = 3 * ExtentS(p)

\* C16: a release delivered for a loaned buffer of a live pool appends exactly
\* (buffer, offset) to that pool's free list, destroys nothing and leaves the
\* mapping length, the wl_shm_pool size and every other handle as they were;
\* the mapping length of a pool never decreases.
C16_ReleasePushesOnly ==
    /\ [][\A b \in BufferIds :
            (Release(b) /\ handles[b].loaned /\ pools[handles[b].pool].state = "live")
            => LET p == handles[b].pool
               IN  /\ pools'[p].available_buffers =
                        Append(pools[p].available_buffers, <<b, wl_buffers[b].offset>>)
                   /\ wl_buffers' = wl_buffers
                   /\ ~handles'[b].loaned
                   /\ \A c \in BufferIds : c # b => handles'[c] = handles[c]
                   /\ \A q \in PoolIds :
                        /\ pools'[q].mappingLen = pools[q].mappingLen
                        /\ pools'[q].fileLen = pools[q].fileLen
                        /\ pools'[q].shmSize = pools[q].shmSize
                        /\ pools'[q].state = pools[q].state
                        /\ q # p => pools'[q] = pools[q]]_vars
    /\ [][\A q \in PoolIds :
            pools[q].state = "live" => pools'[q].mappingLen >= pools[q].mappingLen]_vars

\* a slot at a non-zero offset has been released into the free list of a live
\* pool while another slot of the pool is still on loan
C16_Witness ==
    \E p \in PoolIds :
        /\ pools[p].state = "live"
        /\ \E i \in 1..Len(pools[p].available_buffers) :
                pools[p].available_buffers[i][2] > 0
        /\ \E c \in SlotsOf(p) : handles[c].loaned
        /\ ret = NoRet

\* C17: releases append to the free list in the order they are delivered and
\* get_buffer returns the last entry, so the buffer returned from a non-empty
\* free list is the one released most recently among those waiting, whatever
\* the order in which the buffers were first leased.
C17_ReuseIsLifo ==
    /\ [][\A p \in PoolIds :
            (Returned /\ ret'.pool = p /\ pools[p].available_buffers # <<>>)
            => LET avail == pools[p].available_buffers
               IN  /\ ret'.buffer = avail[Len(avail)][1]
                   /\ pools'[p].available_buffers = SubSeq(avail, 1, Len(avail) - 1)]_vars
    /\ [][\A p \in PoolIds :
            LET old == pools[p].available_buffers
                new == pools'[p].available_buffers
            IN  (pools'[p].state = "live" /\ Len(new) > Len(old))
                => /\ Len(new) = Len(old) + 1
                   /\ SubSeq(new, 1, Len(old)) = old
                   /\ Release(new[Len(new)][1])]_vars

\* the buffer leased first was released last and is returned first, while a
\* buffer leased after it still waits in the free list
C17_Witness ==
    /\ ret.kind = "recycled"
    /\ \E i \in 1..Len(pools[ret.pool].available_buffers) :
            pools[ret.pool].available_buffers[i][1] > ret.buffer

\* C20: the size given to the wl_shm_pool never decreases while the pool is
\* live, the first growth gives S again, after every successful growth it is
\* the mapping length, and every wl_buffer is created with offset + S within it.
C20_ReportedSize ==
    /\ [][\A p \in PoolIds :
            pools[p].state = "live" => pools'[p].shmSize >= pools[p].shmSize]_vars
    /\ [][(Returned /\ ret'.kind = "grown")
            => LET p == ret'.pool
               IN  /\ pools'[p].shmSize = pools'[p].mappingLen
                   /\ pools[p].mappingLen = 0 => pools'[p].shmSize = pools[p].shmSize
                   /\ wl_buffers'[ret'.buffer].offset + ExtentS(p) <= pools'[p].shmSize]_vars
    /\ [](\A p \in PoolIds :
            pools[p].state = "live"
            => /\ pools[p].shmSize >= ExtentS(p)
               /\ \A b \in SlotsOf(p) :
                    wl_buffers[b].offset + ExtentS(p) <= pools[p].shmSize)

\* a second growth: the reported size has gone from S to 2 * S
C20_Witness ==
    /\ ret.kind = "grown"
    /\ ret.offset = ExtentS(ret.pool)
    /\ pools[ret.pool].shmSize = 2 * ExtentS(ret.pool)

\* the window's size times the scale s / 120, rounded to the nearest integer
WindowDims(s) ==
    <<(WINDOW_WIDTH * s + UnitScale \div 2) \div UnitScale,
      (WINDOW_HEIGHT * s + UnitScale \div 2) \div UnitScale>>

\* C18: a set_scale with a new scale constructs a pool of the scaled size in
\* place of the window's pool, which is destroyed; every buffer handle_frame
\* gets afterwards was created by the window's current pool with the scaled
\* width and height, so a buffer of a replaced pool is never returned again;
\* a set_scale with the current scale changes nothing.
C18_SetScaleReplacesPool ==
    /\ [][(scale' # scale /\ panicked' = NoPanic)
            => \E q, p \in PoolIds :
                /\ LivePools = {q}
                /\ pools[p].state = "none"
                /\ LivePools' = {p}
                /\ pools'[q].state = "dropped"
                /\ pools'[q].shmDestroys = 1
                /\ <<pools'[p].width, pools'[p].height>> = WindowDims(scale')
                /\ SlotsOf(p)' = {}]_vars
    /\ [](panicked # Aborted
            => \A p \in LivePools : <<pools[p].width, pools[p].height>> = WindowDims(scale))
    /\ [][ReturnedBuffer
            => LET b == ret'.buffer
               IN  /\ LivePools' = {ret'.pool}
                   /\ handles'[b].pool = ret'.pool
                   /\ wl_buffers'[b].pool = ret'.pool
                   /\ wl_buffers'[b].destroys = 0
                   /\ <<wl_buffers'[b].width, wl_buffers'[b].height>> = WindowDims(scale')]_vars
    /\ [][\A s \in Scales : (SetScale(s) /\ s = scale) => UNCHANGED vars]_vars
    /\ [][LivePools' # LivePools => scale' # scale]_vars

\* after a rescale to 2.0 the late release of an old buffer has destroyed it,
\* and handle_frame has got a buffer of the new pool and the new size
C18_Witness ==
    /\ scale = 2 * UnitScale
    /\ ret.kind \in {"recycled", "grown"}
    /\ wl_buffers[ret.buffer].width = 2 * WINDOW_WIDTH
    /\ \E b \in BufferIds :
        /\ wl_buffers[b].destroyed_by = "release"
        /\ wl_buffers[b].width = WINDOW_WIDTH
        /\ handles[b].pool # ret.pool

\* the sizes of pool p are computed and converted without loss: no overflow
\* panic, the wl_shm_pool is given S or the mapping length, the mapping is S
\* per slot, and every wl_buffer has the pool's width and height, stride
\* width * 4 and its handle's offset
SizesExact(p) ==
    LET n == Cardinality(SlotsOf(p))
    IN  /\ pools[p].state # "failed"
        /\ n = 0 => pools[p].shmSize = ExtentS(p) /\ pools[p].mappingLen = 0
        /\ n > 0 => /\ pools[p].shmSize = pools[p].mappingLen
                    /\ pools[p].mappingLen % n = 0
                    /\ pools[p].mappingLen \div n = ExtentS(p)
        /\ \A b \in SlotsOf(p) :
            /\ wl_buffers[b].width = pools[p].width
            /\ wl_buffers[b].height = pools[p].height
            /\ wl_buffers[b].stride = pools[p].width * 4
            /\ wl_buffers[b].offset = handles[b].offset

\* C19 as stated: for every width and height of the unsigned word the sizes
\* are exact: S = width * height * 4, stride = width * 4, no wraparound of
\* the product and no change of value in the conversions to the signed word.
C19_AllSizesExact ==
    \A p \in PoolIds : pools[p].state # "none" => SizesExact(p)

\* C19 amended: the sizes are exact for every width and every height >= 1
\* for which every size sent, slots * width * height * 4, is at most the
\* largest signed word.
C19_SizesExactInRange ==
    \A p \in PoolIds :
        ( /\ pools[p].state # "none"
          /\ pools[p].height >= 1
          /\ ExtentS(p) <= I32Max
          /\ pools[p].mappingLen <= I32Max )
        => SizesExact(p)

\* a pool whose single buffer takes more than half of the signed range
C19_Witness ==
    \E p \in PoolIds :
        /\ pools[p].state = "live"
        /\ SlotsOf(p) # {}
        /\ ExtentS(p) <= I32Max
        /\ ExtentS(p) > I32Max \div 2
        /\ pools[p].width > 1
        /\ pools[p].height > 1
\* C22: every entry of a free list refers to a slot whose loan flag is false
\* and whose wl_buffer has not been destroyed, and every slot whose loan flag
\* is true is in no free list.
C22_FreeListEntriesIdle ==
    /\ \A p \in PoolIds :
          \A i \in 1..Len(pools[p].available_buffers) :
              LET b == pools[p].available_buffers[i][1]
              IN  /\ b \in BufferIds
                  /\ ~handles[b].loaned
                  /\ wl_buffers[b].destroys = 0
    /\ \A b \in BufferIds : handles[b].loaned => ~InSomeFreeList(b)

\* a live pool has one slot in its free list and one on loan, while a buffer
\* of an earlier pool has been destroyed by that pool's drop
C22_Witness ==
    \E p \in PoolIds, b1, b2, b3 \in BufferIds :
        /\ pools[p].state = "live"
        /\ handles[b1].pool = p /\ handles[b2].pool = p
        /\ b1 \in FreeIds(pools[p].available_buffers)
        /\ handles[b2].loaned
        /\ handles[b3].pool # p
        /\ wl_buffers[b3].destroyed_by = "drop"
\* C21: with release running on its own thread, interleaved step by step with
\* get_buffer and with the pool's drop, no wl_buffer is destroyed twice, no
\* entry stays in a free list that has lost its last strong reference, and
\* once the free list is gone every released buffer whose handler has finished
\* has been destroyed exactly once.
C21_ConcurrentReleaseDestroysOnce ==
    /\ \A b \in BufferIds : wl_buffers[b].destroys <= 1
    /\ \A p \in PoolIds : strong[p] = 0 => pools[p].available_buffers = <<>>
    /\ \A b \in BufferIds :
          ( /\ ~handles[b].loaned
            /\ strong[handles[b].pool] = 0
            /\ release_thread.buffer # b )
          => wl_buffers[b].destroys = 1

\* the pool was dropped between the handler's upgrade and the end of the
\* handler: the handler's temporary reference was the last one, and the
\* buffer it pushed was destroyed by the free list's drop on the release thread
C21_Witness ==
    /\ release_thread.pc = "idle"
    /\ release_thread.last
    /\ \E b \in BufferIds :
          /\ pools[handles[b].pool].state = "dropped"
          /\ strong[handles[b].pool] = 0
          /\ wl_buffers[b].destroys = 1
          /\ wl_buffers[b].destroyed_by = "drop"
====
